---- MODULE Spec2Model ----
(***************************************************************************)
(* The interaction-data (KPI) recorder of the BrowserID dialog:            *)
(* resources/static/common/js/modules/interaction_data.js, started from    *)
(* resources/static/dialog/js/start.js.                                    *)
(*                                                                         *)
(* One page load at a time owns a module instance ("self"); the durable    *)
(* store (bid.Models.InteractionData) outlives page loads.  A new page     *)
(* load tears the previous page down: its pending callbacks never run.     *)
(***************************************************************************)
EXTENDS Integers, Sequences, FiniteSets, TLC

(***************************************************************************)
(* Bounds of the model.                                                    *)
(***************************************************************************)
MaxSessions == 3      \* page loads explored
MaxSessionsAPI == 2   \* page loads explored along with public calls
MaxStream   == 2      \* longest event stream explored
MaxRepeat   == 2      \* largest repeatCount explored
MaxPublish  == 2      \* publishCurrent calls made on one page
RateDen     == 8      \* sample rates and random draws are multiples of 1 / RateDen
MaxEvents   == 3      \* longest event stream explored on a single page
MaxCount    == 3      \* largest repeatCount explored on a single page

(***************************************************************************)
(* JavaScript values.                                                      *)
(***************************************************************************)
\* Date.parse of something that is no date string
NaN == 0 - 1

\* resolution of Date.prototype.toString, in ms
MsPerSec == 1000

\* no data_sample_rate in the session context
NoRate == 0 - 1

\* an object: the keys it has and their values; a key that is absent holds
\* the default value, so that equal objects are equal records.
EmptyObj ==
  [defined |-> TRUE, keys |-> {}, event_stream |-> <<>>, sample_rate |-> 0,
   timestamp |-> 0, local_timestamp |-> 0, new_account |-> FALSE,
   number_emails |-> 0]

\* undefined / null where an object is expected
Undefined == [EmptyObj EXCEPT !.defined = FALSE]

\* _.extend(obj, src): shallow copy of every key of src into obj
Extend(obj, src) ==
  LET pick(k, a, b) == IF k \in src.keys THEN b ELSE a IN
  [defined |-> TRUE,
   keys |-> obj.keys \cup src.keys,
   event_stream |-> pick("event_stream", obj.event_stream, src.event_stream),
   sample_rate |-> pick("sample_rate", obj.sample_rate, src.sample_rate),
   timestamp |-> pick("timestamp", obj.timestamp, src.timestamp),
   local_timestamp |->
     pick("local_timestamp", obj.local_timestamp, src.local_timestamp),
   new_account |-> pick("new_account", obj.new_account, src.new_account),
   number_emails |-> pick("number_emails", obj.number_emails, src.number_emails)]

\* an array of event tuples, or null / undefined
NullStream == [defined |-> FALSE, items |-> <<>>]
Stream(s) == [defined |-> TRUE, items |-> s]

\* startTime.toString() of a Date: the string keeps whole seconds only.
\* The string is represented by the instant it denotes.
DateToString(t) == IF t = NaN THEN NaN ELSE (t \div MsPerSec) * MsPerSec

\* Date.parse(local_timestamp); NaN when the record has no local_timestamp
DateParse(rec) ==
  IF "local_timestamp" \in rec.keys THEN rec.local_timestamp ELSE NaN

\* a - b on JavaScript numbers
Minus(a, b) == IF a = NaN \/ b = NaN THEN NaN ELSE a - b
Plus(a, b) == IF a = NaN \/ b = NaN THEN NaN ELSE a + b

(***************************************************************************)
(* State.                                                                  *)
(***************************************************************************)
VARIABLES
  samplingEnabled,     \* self.samplingEnabled: "undefined", "true" or "false"
  samplesBeingStored,  \* self.samplesBeingStored (FALSE also stands for undefined)
  startTime,           \* self.startTime, ms (or NaN)
  initialEventStream,  \* self.initialEventStream: the in-memory event buffer
  initialKPIs,         \* self.initialKPIs: the in-memory KPI buffer
  subscribed,          \* the instance is subscribed to the mediator
  current,             \* the durable slot of bid.Models.InteractionData
  sent,                \* history: the records handed to the network for upload
  pending,             \* publishCurrent calls of this page still in flight
  session,             \* number of page loads so far (0: no page yet)
  continuation,        \* options.continuation of the live page
  now,                 \* the local clock, ms
  raised,              \* an exception was thrown on the live page
  calls,               \* publishCurrent calls made on the live page
  doneCalls,           \* invocations of a done callback on the live page
  currentId,           \* history: identity of the record in the slot (0: none)
  nextId,              \* history: identities given out so far
  logical,             \* history: page load that began the logical session
  log,                 \* history: the tuples appended in the logical session, with
                       \* the page and the local instant of each
  decision             \* history: the draw and the rate of the last decision observed

vars ==
  <<samplingEnabled, samplesBeingStored, startTime, initialEventStream,
    initialKPIs, subscribed, current, sent, pending, session, continuation,
    now, raised, calls, doneCalls, currentId, nextId, logical, log,
    decision>>

\* the module instance and the store as one value, for the operators below
Self ==
  [samplingEnabled |-> samplingEnabled,
   samplesBeingStored |-> samplesBeingStored,
   startTime |-> startTime,
   initialEventStream |-> initialEventStream,
   initialKPIs |-> initialKPIs,
   current |-> current,
   sent |-> sent,
   raised |-> raised,
   currentId |-> currentId,
   nextId |-> nextId,
   logical |-> logical,
   log |-> log,
   page |-> session]

Install(m) ==
  /\ samplingEnabled' = m.samplingEnabled
  /\ samplesBeingStored' = m.samplesBeingStored
  /\ startTime' = m.startTime
  /\ initialEventStream' = m.initialEventStream
  /\ initialKPIs' = m.initialKPIs
  /\ current' = m.current
  /\ sent' = m.sent
  /\ raised' = m.raised
  /\ currentId' = m.currentId
  /\ nextId' = m.nextId
  /\ logical' = m.logical
  /\ log' = m.log

(***************************************************************************)
(* bid.Models.InteractionData, the durable store.  Its code is not part of *)
(* the sources at hand; it is modelled from its specified interface:       *)
(* getCurrent, setCurrent, push and publishCurrent over one durable slot.  *)
(***************************************************************************)
\* model.getCurrent(): the record in the slot, or undefined
ModelGetCurrent(m) == m.current

\* model.setCurrent(data): data becomes the record in the slot
ModelSetCurrent(m, data) ==
  [m EXCEPT !.current = data,
            !.currentId = IF m.current.defined THEN @ ELSE m.nextId + 1,
            !.nextId = IF m.current.defined THEN @ ELSE @ + 1]

\* model.push(data): seeds a new durable record in the empty slot
ModelPush(m, data) ==
  IF m.current.defined THEN m ELSE ModelSetCurrent(m, data)

\* mutant: the record stays in the slot after the hand-off
ModelPublishCurrentKeeps(m) ==
  IF m.current.defined
    THEN [m EXCEPT
            !.sent = Append(@, [id |-> m.currentId, logical |-> m.logical])]
    ELSE m

\* model.publishCurrent(cb), the synchronous part: the record in the slot, if
\* any, is handed to the network and the slot is cleared.  cb(status) fires
\* later, see UploadOutcome.
ModelPublishCurrent(m) ==
  IF m.current.defined
    THEN [m EXCEPT
            !.sent = Append(@, [id |-> m.currentId, logical |-> m.logical]),
            !.current = Undefined,
            !.currentId = 0]
    ELSE m

(***************************************************************************)
(* Name translation.                                                       *)
(***************************************************************************)
\* the payload of a mediator message.  eventTime = 0, duration = 0 and the
\* empty string stand for a key that is absent (all are falsy in the code).
NoData ==
  [eventTime |-> 0, duration |-> 0, name |-> "", type |-> "", url |-> "",
   query |-> "", status |-> 0, action |-> FALSE, errorKey |-> "",
   title |-> "", time |-> 0, kpis |-> Undefined]

\* no reporting name: undefined
NoName == ""

\* removeGetData: the method and the URL without its query string
removeGetData(msg, data) ==
  IF msg # "" /\ data.type # "" /\ (data.url # "" \/ data.query # "")
    THEN msg \o "." \o data.type \o data.url
    ELSE "xhr.malformed_report"

\* parseErrorScreen: "screen.error." and the error kind and HTTP status that
\* the payload has.  errorKey is _.keyOf(errors, data.action), "" when the
\* action is no known error.
parseErrorScreen(msg, data) ==
  LET errorType ==
        IF data.errorKey # "" THEN data.errorKey
        ELSE IF data.title # "" THEN data.title ELSE "unknown"
      kind == IF data.action THEN <<errorType>> ELSE <<>>
      parts == IF data.status > 399 THEN kind \o <<ToString(data.status)>> ELSE kind
  IN  IF parts = <<>> THEN "screen.error.unknown"
      ELSE IF Len(parts) = 1 THEN "screen.error." \o parts[1]
      ELSE "screen.error." \o parts[1] \o "." \o parts[2]

\* MediatorToKPINameTable: the entries that are strings
StringEntries ==
  [cancel_state |-> "screen.cancel",
   primary_user_authenticating |-> "window.redirect_to_primary",
   dom_loading |-> "window.dom_loading",
   window_unload |-> "window.unload",
   channel_established |-> "window.channel_established",
   user_can_interact |-> "user.can_interact",
   user_staged |-> "user.user_staged",
   user_confirmed |-> "user.user_confirmed",
   email_staged |-> "user.email_staged",
   email_confirmed |-> "user.email_confirmed",
   reset_password_staged |-> "user.reset_password_staged",
   reset_password_confirmed |-> "user.reset_password_confirmed",
   reverify_email_staged |-> "user.reverify_email_staged",
   reverify_email_confirmed |-> "user.reverify_email_confirmed",
   notme |-> "user.logout",
   enter_password |-> "authenticate.enter_password",
   password_submit |-> "authenticate.password_submitted",
   authentication_success |-> "authenticate.password_success",
   authentication_fail |-> "authenticate.password_fail"]

\* mutant: the table has an entry for "start_time"
NullEntriesWithStartTime == {"generate_assertion", "assertion_generated", "start_time"}

\* MediatorToKPINameTable: the entries that are null
NullEntries == {"generate_assertion", "assertion_generated"}

\* mutant: the entries that are functions are not called
getKPINameNoFunctions(msg, data) ==
  IF msg \in NullEntries THEN msg
  ELSE IF msg \in DOMAIN StringEntries THEN StringEntries[msg]
  ELSE NoName

\* mutant: a message without table entry keeps its name
getKPINamePassThrough(msg, data) ==
  IF msg \in DOMAIN StringEntries THEN StringEntries[msg]
  ELSE IF msg = "service" THEN "screen." \o data.name
  ELSE IF msg = "xhr_complete" THEN removeGetData(msg, data)
  ELSE IF msg = "error_screen" THEN parseErrorScreen(msg, data)
  ELSE msg

\* getKPIName: the reporting name of a message, NoName when there is none
getKPIName(msg, data) ==
  IF msg \in NullEntries THEN msg
  ELSE IF msg \in DOMAIN StringEntries THEN StringEntries[msg]
  ELSE IF msg = "service" THEN "screen." \o data.name
  ELSE IF msg = "xhr_complete" THEN removeGetData(msg, data)
  ELSE IF msg = "error_screen" THEN parseErrorScreen(msg, data)
  ELSE NoName

(***************************************************************************)
(* The messages and payloads explored.                                     *)
(***************************************************************************)
XhrTypes == {"GET"}
XhrUrls == {"/wsapi/session_context", "/wsapi/list_emails"}
ScreenNames == {"pick_email"}

\* /^xhr_complete/.test(eventName): of the names getKPIName returns, those
\* that removeGetData built from a well-formed payload
IsXhrComplete(eventName) ==
  \E t \in XhrTypes, u \in XhrUrls : eventName = "xhr_complete." \o t \o u

\* the local instants a payload can carry
Times == {0, 600}

\* payloads of the "kpi_data" message
KPIPayloads ==
  {[EmptyObj EXCEPT !.keys = {"number_emails"}, !.number_emails = 2],
   [EmptyObj EXCEPT !.keys = {"new_account"}, !.new_account = TRUE]}

\* messages published on the mediator, with their payloads
Messages ==
  {[msg |-> "cancel_state", data |-> NoData],
   [msg |-> "unmapped_message", data |-> NoData],
   [msg |-> "xhr_complete",
    data |-> [NoData EXCEPT !.type = "GET", !.url = "/wsapi/session_context",
                            !.query = "a=1"]],
   [msg |-> "start_time", data |-> [NoData EXCEPT !.time = 600]],
   [msg |-> "kpi_data",
    data |-> [NoData EXCEPT
                !.kpis = [EmptyObj EXCEPT !.keys = {"number_emails"},
                                          !.number_emails = 2]]]}

\* messages received by the recorder of a single page: those above but for
\* the "kpi_data" payload, which is another, and a network completion without
\* network data, a message whose table entry is null, and one whose entry is
\* a function and whose payload carries its own eventTime and a duration
RecorderMessages ==
  {e \in Messages : e.msg # "kpi_data"} \cup
  {[msg |-> "xhr_complete", data |-> NoData],
   [msg |-> "kpi_data",
    data |-> [NoData EXCEPT
                !.kpis = [EmptyObj EXCEPT !.keys = {"new_account"},
                                          !.new_account = TRUE]]],
   [msg |-> "generate_assertion", data |-> NoData],
   [msg |-> "service",
    data |-> [NoData EXCEPT !.name = "pick_email", !.eventTime = 300,
                            !.duration = 50]]}

\* session contexts: data_sample_rate in units of 1 / RateDen (NoRate: absent)
\* and server_time in ms
Contexts ==
  {[data_sample_rate |-> r, server_time |-> t] :
     r \in {NoRate, 0, RateDen \div 2, RateDen}, t \in {1000003}}

\* Math.random(), in units of 1 / RateDen: a value in [0, 1)
Draws == {0, RateDen - 1}

(***************************************************************************)
(* The session persistence bridge: interaction_data.js, lines 302-353.     *)
(***************************************************************************)
\* mutant: the getter does not look at samplingEnabled
getCurrentKPIsWhenDisabled(m) ==
  IF m.samplesBeingStored THEN ModelGetCurrent(m) ELSE m.initialKPIs

getCurrentKPIs(m) ==
  IF m.samplingEnabled = "false" THEN Undefined
  ELSE IF m.samplesBeingStored THEN ModelGetCurrent(m)
  ELSE m.initialKPIs

\* mutant: the KPIs written to the store are kept in the buffer as well
setCurrentKPIsAlsoBuffer(m, kpis) ==
  IF m.samplesBeingStored
    THEN [ModelSetCurrent(m, kpis) EXCEPT !.initialKPIs = kpis]
    ELSE [m EXCEPT !.initialKPIs = kpis]

setCurrentKPIs(m, kpis) ==
  IF m.samplesBeingStored THEN ModelSetCurrent(m, kpis)
  ELSE [m EXCEPT !.initialKPIs = kpis]

\* model.getCurrent() || {}
CurrentOrEmpty(m) ==
  IF ModelGetCurrent(m).defined THEN ModelGetCurrent(m) ELSE EmptyObj

\* mutant: the getter reads the store whatever samplesBeingStored is
getCurrentEventStreamStored(m) ==
  IF m.samplingEnabled = "false" THEN NullStream
  ELSE Stream(CurrentOrEmpty(m).event_stream)

getCurrentEventStream(m) ==
  IF m.samplingEnabled = "false" THEN NullStream
  ELSE IF m.samplesBeingStored THEN Stream(CurrentOrEmpty(m).event_stream)
  ELSE m.initialEventStream

\* mutant: a stored session's stream is changed in memory and not written back
setCurrentEventStreamUnsaved(m, eventStream) ==
  IF m.samplesBeingStored
    THEN m
    ELSE [m EXCEPT !.initialEventStream = Stream(eventStream)]

setCurrentEventStream(m, eventStream) ==
  IF m.samplesBeingStored
    THEN ModelSetCurrent(m,
           [CurrentOrEmpty(m) EXCEPT !.keys = @ \cup {"event_stream"},
                                     !.event_stream = eventStream])
    ELSE [m EXCEPT !.initialEventStream = Stream(eventStream)]

(***************************************************************************)
(* The sampling decision engine: beginSampling.                            *)
(***************************************************************************)
TEN_MINS_IN_MS == 10 * 60 * 1000

\* Math.random() <= sampleRate
Sampled(draw, sampleRate) == draw <= sampleRate

\* mutant: the draw is taken again on every run
DecideSamplingAgain(m, sampleRate, draw) ==
  [m EXCEPT !.samplingEnabled =
              IF Sampled(draw, sampleRate) THEN "true" ELSE "false"]

\* lines 175-179: the draw, taken while samplingEnabled is undefined
DecideSampling(m, sampleRate, draw) ==
  IF m.samplingEnabled = "undefined"
    THEN [m EXCEPT !.samplingEnabled =
                     IF Sampled(draw, sampleRate) THEN "true" ELSE "false"]
    ELSE m

\* mutant: the record takes new_account from the buffer
NewKPIsKeepingAccount(m, sampleRate, serverTime) ==
  Extend(m.initialKPIs,
         [EmptyObj EXCEPT
            !.keys = {"event_stream", "sample_rate", "timestamp",
                      "local_timestamp", "lang", "screen_size"},
            !.event_stream = m.initialEventStream.items,
            !.sample_rate = sampleRate,
            !.timestamp = (serverTime \div TEN_MINS_IN_MS) * TEN_MINS_IN_MS,
            !.local_timestamp = DateToString(m.startTime)])

\* mutant: the record keeps the server time as it is
NewKPIsUnrounded(m, sampleRate, serverTime) ==
  Extend(m.initialKPIs,
         [EmptyObj EXCEPT
            !.keys = {"event_stream", "sample_rate", "timestamp",
                      "local_timestamp", "lang", "new_account", "screen_size"},
            !.event_stream = m.initialEventStream.items,
            !.sample_rate = sampleRate,
            !.timestamp = serverTime,
            !.local_timestamp = DateToString(m.startTime)])

\* mutant: the record starts with an empty event stream
NewKPIsWithoutEvents(m, sampleRate, serverTime) ==
  Extend(m.initialKPIs,
         [EmptyObj EXCEPT
            !.keys = {"event_stream", "sample_rate", "timestamp",
                      "local_timestamp", "lang", "new_account", "screen_size"},
            !.sample_rate = sampleRate,
            !.timestamp = (serverTime \div TEN_MINS_IN_MS) * TEN_MINS_IN_MS,
            !.local_timestamp = DateToString(m.startTime)])

\* mutant: the record is built from an empty object, not from the buffer
NewKPIsFromScratch(m, sampleRate, serverTime) ==
  Extend(EmptyObj,
         [EmptyObj EXCEPT
            !.keys = {"event_stream", "sample_rate", "timestamp",
                      "local_timestamp", "lang", "new_account", "screen_size"},
            !.event_stream = m.initialEventStream.items,
            !.sample_rate = sampleRate,
            !.timestamp = (serverTime \div TEN_MINS_IN_MS) * TEN_MINS_IN_MS,
            !.local_timestamp = DateToString(m.startTime),
            !.new_account = FALSE])

\* lines 186-207: the record to make durable.  lang and screen_size are read
\* from the DOM; the model keeps their keys only.
NewKPIs(m, sampleRate, serverTime) ==
  LET roundedServerTime == (serverTime \div TEN_MINS_IN_MS) * TEN_MINS_IN_MS IN
  Extend(m.initialKPIs,
         [EmptyObj EXCEPT
            !.keys = {"event_stream", "sample_rate", "timestamp",
                      "local_timestamp", "lang", "new_account", "screen_size"},
            !.event_stream = m.initialEventStream.items,
            !.sample_rate = sampleRate,
            !.timestamp = roundedServerTime,
            !.local_timestamp = DateToString(m.startTime),
            !.new_account = FALSE])

\* mutant: a run on an enabled session promotes again, from an empty record
beginSamplingAgain(m, context, draw) ==
  LET sampleRate ==
        IF context.data_sample_rate = NoRate THEN 0 ELSE context.data_sample_rate
      m1 == DecideSampling(m, sampleRate, draw)
      m2 == IF m1.initialKPIs.defined THEN m1
            ELSE [m1 EXCEPT !.initialKPIs = EmptyObj]
  IN  IF m1.samplingEnabled # "true" THEN m1
      ELSE [ModelPush(m2, NewKPIs(m2, sampleRate, context.server_time)) EXCEPT
              !.initialEventStream = NullStream,
              !.initialKPIs = Undefined,
              !.samplesBeingStored = TRUE]

beginSampling(m, context, draw) ==
  LET sampleRate ==
        IF context.data_sample_rate = NoRate THEN 0 ELSE context.data_sample_rate
      m1 == DecideSampling(m, sampleRate, draw)
  IN  IF m1.samplingEnabled # "true" THEN m1
      \* _.extend(null, ...) throws a TypeError
      ELSE IF ~m1.initialKPIs.defined THEN [m1 EXCEPT !.raised = TRUE]
      ELSE [ModelPush(m1, NewKPIs(m1, sampleRate, context.server_time)) EXCEPT
              !.initialEventStream = NullStream,
              !.initialKPIs = Undefined,
              !.samplesBeingStored = TRUE]

(***************************************************************************)
(* The event stream recorder.                                              *)
(***************************************************************************)
\* an event tuple [name, offset, duration, repeatCount]; duration = 0 and
\* repeatCount = 0 stand for an element that is absent
NoTuple == [name |-> NoName, offset |-> 0, duration |-> 0, repeatCount |-> 0]

\* mutant: the data given replaces the record
addKPIDataReplacing(m, kpiData) ==
  IF getCurrentKPIs(m).defined /\ kpiData.defined
    THEN setCurrentKPIs(m, Extend(EmptyObj, kpiData))
    ELSE m

addKPIData(m, kpiData) ==
  LET currentData == getCurrentKPIs(m) IN
  IF currentData.defined
    THEN setCurrentKPIs(m, IF kpiData.defined THEN Extend(currentData, kpiData)
                                               ELSE currentData)
    ELSE m

\* mutant: the tuples recorded so far keep their offsets
updateStartTimeOnly(m, newStartTime) == [m EXCEPT !.startTime = newStartTime]

updateStartTime(m, newStartTime) ==
  LET eventStream == getCurrentEventStream(m)
      delta == Minus(m.startTime, newStartTime)
      shifted ==
        [i \in 1 .. Len(eventStream.items) |->
           [eventStream.items[i] EXCEPT !.offset = Plus(@, delta)]]
      m1 == IF eventStream.defined /\ Len(eventStream.items) > 0
              THEN setCurrentEventStream(m, shifted)
              ELSE m
  IN  [m1 EXCEPT !.startTime = newStartTime]

\* preventDuplicateXhrEvents: [hit, m, ret]; hit when the event was collapsed
\* into the last tuple of the stream, ret the value the function returns
preventDuplicateXhrEvents(m, eventName) ==
  LET eventStream == getCurrentEventStream(m)
      n == Len(eventStream.items)
      lastEvent == eventStream.items[n]
      eventCallCount ==
        (IF lastEvent.repeatCount = 0 THEN 1 ELSE lastEvent.repeatCount) + 1
      counted == [lastEvent EXCEPT !.repeatCount = eventCallCount]
  IN  IF /\ IsXhrComplete(eventName)
         /\ eventStream.defined
         /\ n > 0
         /\ lastEvent.name = eventName
        THEN [hit |-> TRUE,
              m |-> setCurrentEventStream(m,
                      [eventStream.items EXCEPT ![n] = counted]),
              ret |-> counted]
        ELSE [hit |-> FALSE, m |-> m, ret |-> NoTuple]

\* addEvent(msg, data) at local time date: [m, ret], the state afterwards and
\* the value returned (NoTuple: undefined)
addEvent(m, msg, data, date) ==
  LET m1 == IF msg = "start_time" THEN updateStartTime(m, data.time) ELSE m
      eventName == getKPIName(msg, data)
      dup == preventDuplicateXhrEvents(m1, eventName)
      eventTime == IF data.eventTime # 0 THEN data.eventTime ELSE date
      eventData ==
        [name |-> eventName,
         offset |-> Minus(eventTime, m1.startTime),
         duration |-> data.duration,
         repeatCount |-> 0]
      eventStream == getCurrentEventStream(m1)
      m2 == IF eventStream.defined
              THEN [setCurrentEventStream(m1, Append(eventStream.items, eventData))
                      EXCEPT !.log = Append(@, [name |-> eventName, page |-> m.page,
                                                time |-> eventTime])]
              ELSE m1
  IN  IF m1.samplingEnabled = "false" THEN [m |-> m1, ret |-> NoTuple]
      ELSE IF eventName = NoName THEN [m |-> m1, ret |-> NoTuple]
      \* line 266: a bare return, the tuple preventDuplicateXhrEvents returned
      \* is not handed on
      ELSE IF dup.hit THEN [m |-> dup.m, ret |-> NoTuple]
      ELSE [m |-> m2, ret |-> eventData]

\* onKPIData: the "kpi_data" subscription
onKPIData(m, msg, kpiData) == addKPIData(m, kpiData)

(***************************************************************************)
(* Page loads and callbacks.                                               *)
(***************************************************************************)
NoDecision == [made |-> FALSE, ran |-> FALSE, draw |-> 0, rate |-> 0, time |-> 0]

\* a publishCurrent call in flight: waiting for the upload to end ("upload")
\* or for the session context ("context"); status is the upload's outcome
Call(hasDone) == [phase |-> "upload", status |-> FALSE, done |-> hasDone]

Remove(seq, i) == SubSeq(seq, 1, i - 1) \o SubSeq(seq, i + 1, Len(seq))

\* the streams and the tuples of one logical session stay within the bounds
InBound(m) ==
  /\ Len(m.log) <= MaxStream
  /\ Len(m.initialEventStream.items) <= MaxStream
  /\ Len(m.current.event_stream) <= MaxStream
  /\ \A i \in 1 .. Len(m.initialEventStream.items) :
       m.initialEventStream.items[i].repeatCount <= MaxRepeat
  /\ \A i \in 1 .. Len(m.current.event_stream) :
       m.current.event_stream[i].repeatCount <= MaxRepeat

\* a module instance right after construction, on a new page
NewInstance(option) ==
  [Self EXCEPT !.samplingEnabled = option,
               !.samplesBeingStored = FALSE,
               !.startTime = NaN,
               !.initialEventStream = NullStream,
               !.initialKPIs = Undefined,
               !.raised = FALSE]

\* mutant: beginSampling runs at once, not in the callback
publishCurrentEager(m) ==
  beginSampling(ModelPublishCurrent(m),
                [data_sample_rate |-> RateDen, server_time |-> 1000003], 0)

\* mutant: a session forced to 'disabled' publishes nothing
publishCurrentUnlessDisabled(m) ==
  IF m.samplingEnabled = "false" THEN m ELSE ModelPublishCurrent(m)

\* mutant: the record stays in the slot until the upload has ended
publishCurrentLeavesSlot(m) == m

\* publishCurrent (lines 139-162), up to the return of model.publishCurrent;
\* the callback is Callback below
publishCurrent(m) == ModelPublishCurrent(m)

\* mutant: the resumed session does not take the record's start time
ResumeWithoutStartTime(m) ==
  [m EXCEPT !.samplingEnabled = "true", !.samplesBeingStored = TRUE]

\* start, lines 376-384: a continuation resumes the record it finds
Resume(m) ==
  [m EXCEPT !.startTime = DateParse(ModelGetCurrent(m)),
            !.samplingEnabled = "true",
            !.samplesBeingStored = TRUE]

\* mutant: without a record the option given to start stays in force
RefuseKeepsOption(m) == m

\* start, lines 385-391: a continuation that finds no record
Refuse(m) == [m EXCEPT !.samplingEnabled = "false"]

\* mutant: the new session is taken to be storing its samples already
BeginStored(m, date) ==
  [m EXCEPT !.startTime = date,
            !.initialEventStream = Stream(<<>>),
            !.initialKPIs = EmptyObj,
            !.samplesBeingStored = TRUE]

\* start, lines 393-410: the buffers of a session that is no continuation
Begin(m, date) ==
  [m EXCEPT !.startTime = date,
            !.initialEventStream = Stream(<<>>),
            !.initialKPIs = EmptyObj,
            !.samplesBeingStored = FALSE]

\* Module.start(options) on a new page load; the page before it is gone, and
\* with it the callbacks it was waiting for
Start(cont, option) ==
  LET m0 == NewInstance(option)
      lastSessionsKPIs == ModelGetCurrent(m0)
      published == [publishCurrent(Begin(m0, now)) EXCEPT
                      !.logical = session + 1, !.log = <<>>]
  IN  /\ session' = session + 1
      /\ continuation' = cont
      /\ doneCalls' = 0
      /\ UNCHANGED <<now, decision>>
      /\ IF cont
           THEN /\ Install(IF lastSessionsKPIs.defined THEN Resume(m0)
                                                       ELSE Refuse(m0))
                /\ subscribed' = lastSessionsKPIs.defined
                /\ pending' = <<>>
                /\ calls' = 0
           ELSE /\ Install(published)
                /\ subscribed' = TRUE
                /\ pending' = <<Call(FALSE)>>
                /\ calls' = 1

\* the upload that model.publishCurrent began has ended: its callback calls
\* user.withContext
UploadOutcome(i, status) ==
  /\ i \in 1 .. Len(pending)
  /\ pending[i].phase = "upload"
  /\ pending' = [pending EXCEPT ![i].phase = "context", ![i].status = status]
  /\ UNCHANGED <<samplingEnabled, samplesBeingStored, startTime,
                 initialEventStream, initialKPIs, subscribed, current, sent,
                 session, continuation, now, raised, calls, doneCalls,
                 currentId, nextId, logical, log, decision>>

\* the callback of publishCurrent (lines 152-160) on delivery of the context
Callback(i, context, draw) ==
  LET m1 == beginSampling([Self EXCEPT !.raised = FALSE], context, draw)
      msg == IF pending[i].status THEN "interaction_data_send_complete"
                                  ELSE "interaction_data_send_error"
      m2 == IF subscribed THEN addEvent(m1, msg, NoData, now).m ELSE m1
  IN  /\ i \in 1 .. Len(pending)
      /\ pending[i].phase = "context"
      /\ pending' = Remove(pending, i)
      /\ IF m1.raised
           THEN /\ Install(m1)
                /\ UNCHANGED doneCalls
           ELSE /\ Install([m2 EXCEPT !.raised = raised])
                /\ doneCalls' = doneCalls + (IF pending[i].done THEN 1 ELSE 0)
      /\ UNCHANGED <<subscribed, session, continuation, now, calls>>

ContextDelivered(i, context, draw) ==
  /\ Callback(i, context, draw)
  /\ UNCHANGED decision

\* the same step, observed: the history keeps the draw, the rate and the
\* server time of the context, and whether the step took the decision
Decide(i, context, draw) ==
  /\ Callback(i, context, draw)
  /\ decision' = [made |-> decision.made \/ samplingEnabled = "undefined",
                   ran |-> TRUE,
                   draw |-> draw,
                   rate |-> context.data_sample_rate,
                   time |-> context.server_time]

\* the session context cannot be fetched: user.withContext never calls back
ContextFails(i) ==
  /\ i \in 1 .. Len(pending)
  /\ pending[i].phase = "context"
  /\ pending' = Remove(pending, i)
  /\ UNCHANGED <<samplingEnabled, samplesBeingStored, startTime,
                 initialEventStream, initialKPIs, subscribed, current, sent,
                 session, continuation, now, raised, calls, doneCalls,
                 currentId, nextId, logical, log, decision>>

\* a message on the mediator: addEvent is subscribed to all messages,
\* onKPIData to "kpi_data"
Publish(e) ==
  LET m1 == addEvent(Self, e.msg, e.data, now).m
      m2 == IF e.msg = "kpi_data" THEN onKPIData(m1, e.msg, e.data.kpis) ELSE m1
  IN  /\ session > 0
      /\ subscribed
      /\ InBound(m2)
      /\ Install(m2)
      /\ UNCHANGED <<subscribed, pending, session, continuation, now, calls,
                     doneCalls, decision>>

\* the same on the single page explored in depth
InBoundRecorder(m) ==
  /\ Len(m.log) <= MaxEvents
  /\ \A i \in 1 .. Len(m.initialEventStream.items) :
       m.initialEventStream.items[i].repeatCount <= MaxCount
  /\ \A i \in 1 .. Len(m.current.event_stream) :
       m.current.event_stream[i].repeatCount <= MaxCount

Record(e) ==
  LET m1 == addEvent(Self, e.msg, e.data, now).m
      m2 == IF e.msg = "kpi_data" THEN onKPIData(m1, e.msg, e.data.kpis) ELSE m1
  IN  /\ session > 0
      /\ subscribed
      /\ InBoundRecorder(m2)
      /\ Install(m2)
      /\ UNCHANGED <<subscribed, pending, session, continuation, now, calls,
                     doneCalls, decision>>

\* the local clock advances
Tick(t) ==
  /\ t > now
  /\ now' = t
  /\ UNCHANGED <<samplingEnabled, samplesBeingStored, startTime,
                 initialEventStream, initialKPIs, subscribed, current, sent,
                 pending, session, continuation, raised, calls, doneCalls,
                 currentId, nextId, logical, log, decision>>

(***************************************************************************)
(* Calls of the module's public functions (lines 420-424).                 *)
(***************************************************************************)
CallAddEvent(e) ==
  LET m1 == addEvent(Self, e.msg, e.data, now).m
  IN  /\ session > 0
      /\ InBound(m1)
      /\ Install(m1)
      /\ UNCHANGED <<subscribed, pending, session, continuation, now, calls,
                     doneCalls, decision>>

CallAddKPIData(kpiData) ==
  /\ session > 0
  /\ Install(addKPIData(Self, kpiData))
  /\ UNCHANGED <<subscribed, pending, session, continuation, now, calls,
                 doneCalls, decision>>

\* publishCurrent(done), up to the return of model.publishCurrent
CallPublishCurrent ==
  /\ session > 0
  /\ calls < MaxPublish
  /\ calls' = calls + 1
  /\ Install(publishCurrent(Self))
  /\ pending' = Append(pending, Call(TRUE))
  /\ UNCHANGED <<subscribed, session, continuation, now, doneCalls, decision>>

(***************************************************************************)
(* Specifications.                                                         *)
(***************************************************************************)
Init ==
  /\ samplingEnabled = "undefined"
  /\ samplesBeingStored = FALSE
  /\ startTime = NaN
  /\ initialEventStream = NullStream
  /\ initialKPIs = Undefined
  /\ subscribed = FALSE
  /\ current = Undefined
  /\ sent = <<>>
  /\ pending = <<>>
  /\ session = 0
  /\ continuation = FALSE
  /\ now = 0
  /\ raised = FALSE
  /\ calls = 0
  /\ doneCalls = 0
  /\ currentId = 0
  /\ nextId = 0
  /\ logical = 0
  /\ log = <<>>
  /\ decision = NoDecision

\* the dialog in production: page loads, mediator messages and callbacks
Steps ==
  \/ \E i \in 1 .. MaxPublish, status \in BOOLEAN : UploadOutcome(i, status)
  \/ \E i \in 1 .. MaxPublish, context \in Contexts, draw \in Draws :
       ContextDelivered(i, context, draw)
  \/ \E i \in 1 .. MaxPublish : ContextFails(i)
  \/ \E e \in Messages : Publish(e)
  \/ \E t \in Times : Tick(t)

Next ==
  \/ \E cont \in BOOLEAN, option \in {"undefined", "true", "false"} :
       session < MaxSessions /\ Start(cont, option)
  \/ Steps

Spec == Init /\ [][Next]_vars

\* the same, with callers of the module's public functions
APIMessages ==
  {e \in Messages : e.msg \in {"xhr_complete", "start_time", "kpi_data"}}

NextAPI ==
  \/ \E cont \in BOOLEAN, option \in {"undefined", "true", "false"} :
       session < MaxSessionsAPI /\ Start(cont, option)
  \/ \E i \in 1 .. MaxPublish, status \in BOOLEAN : UploadOutcome(i, status)
  \/ \E i \in 1 .. MaxPublish, context \in Contexts, draw \in Draws :
       ContextDelivered(i, context, draw)
  \/ \E i \in 1 .. MaxPublish : ContextFails(i)
  \/ \E e \in APIMessages : Publish(e)
  \/ \E e \in APIMessages : CallAddEvent(e)
  \/ \E k \in KPIPayloads : CallAddKPIData(k)
  \/ CallPublishCurrent

SpecAPI == Init /\ [][NextAPI]_vars

\* the sampling decision of one page load, for every draw and every rate
ServerTimes == {0, 599999, 600000, 1000003, 1200000}

AllContexts ==
  {[data_sample_rate |-> r, server_time |-> t] :
     r \in (0 .. RateDen) \cup {NoRate}, t \in ServerTimes}

AllDraws == 0 .. (RateDen - 1)

NextDecide ==
  \/ \E option \in {"undefined", "true", "false"} :
       session < 1 /\ Start(FALSE, option)
  \/ \E status \in BOOLEAN : UploadOutcome(1, status)
  \/ \E context \in AllContexts, draw \in AllDraws : Decide(1, context, draw)
  \/ \E e \in {x \in Messages : x.msg = "cancel_state"} : Publish(e)

SpecDecide == Init /\ [][NextDecide]_vars

\* the recorder of one page load, with every kind of message
NextRecorder ==
  \/ \E option \in {"undefined", "true", "false"} :
       session < 1 /\ Start(FALSE, option)
  \/ \E status \in BOOLEAN : UploadOutcome(1, status)
  \/ \E context \in Contexts, draw \in Draws : ContextDelivered(1, context, draw)
  \/ \E e \in RecorderMessages : Record(e)
  \/ \E t \in Times : Tick(t)

SpecRecorder == Init /\ [][NextRecorder]_vars

\* one page load and the publishCurrent calls made on it, over a network
\* that answers: every upload ends, with success or with failure, and every
\* fetch of the session context delivers a context
NextPublish ==
  \/ \E cont \in BOOLEAN, option \in {"undefined", "true", "false"} :
       session < 1 /\ Start(cont, option)
  \/ \E i \in 1 .. MaxPublish, status \in BOOLEAN : UploadOutcome(i, status)
  \/ \E i \in 1 .. MaxPublish, context \in Contexts, draw \in Draws :
       ContextDelivered(i, context, draw)
  \/ \E e \in APIMessages : Publish(e)
  \/ CallPublishCurrent

SpecPublish ==
  /\ Init
  /\ [][NextPublish]_vars
  /\ WF_vars(\E i \in 1 .. MaxPublish, status \in BOOLEAN : UploadOutcome(i, status))
  /\ WF_vars(\E i \in 1 .. MaxPublish, context \in Contexts, draw \in Draws :
               ContextDelivered(i, context, draw))

(***************************************************************************)
(* Properties.                                                             *)
(***************************************************************************)
Names(stream) == [i \in 1 .. Len(stream) |-> stream[i].name]

\* a step of the live page, as opposed to a new page load
SamePage == session' = session

\* a page load that is no continuation
FreshStart == session' # session /\ ~continuation'

\* a page load that is a continuation
ContinuationStart == session' # session /\ continuation'

\* a record is written into the empty slot
RecordCreated == nextId' # nextId

\* some call's callback runs: the upload it waited for has ended before
CallbackRuns ==
  \E i \in 1 .. Len(pending) :
    pending[i].phase = "context" /\ pending' = Remove(pending, i)

\* C1: a new durable record is written only by the callback of a
\* publishCurrent call of the same page, after the upload of that call has
\* ended; while the call made by start is in flight the slot stays empty.
C1_PushAfterPublish ==
  /\ [][RecordCreated => SamePage /\ CallbackRuns]_vars
  /\ [](~continuation /\ pending # <<>> => ~current.defined)

C1_Witness ==
  /\ ~continuation
  /\ samplesBeingStored
  /\ current.defined
  /\ \E i \in 1 .. Len(sent) : sent[i].logical < logical

\* C2: in a session that is no continuation, once samplingEnabled is a
\* boolean no step of the page changes it.
C2_DecidedOnce ==
  [][SamePage /\ ~continuation /\ samplingEnabled # "undefined"
       => samplingEnabled' = samplingEnabled]_vars

C2_Witness ==
  /\ ~continuation
  /\ samplingEnabled = "false"
  /\ calls = 2
  /\ doneCalls = 1
  /\ pending = <<>>
  /\ initialEventStream.items # <<>>
  /\ startTime = 600

\* C3: while samplingEnabled is false the getters return undefined, the slot
\* is empty, and no step of the page changes a buffer or the slot; the step
\* that decides 'disabled' writes nothing to the slot either.
C3_DisabledRecordsNothing ==
  /\ [](samplingEnabled = "false"
          => /\ getCurrentKPIs(Self) = Undefined
             /\ getCurrentEventStream(Self) = NullStream
             /\ ~current.defined)
  /\ [][SamePage /\ samplingEnabled' = "false"
          => /\ current' = current
             /\ nextId' = nextId
             /\ samplingEnabled = "false"
                  => /\ initialKPIs' = initialKPIs
                     /\ initialEventStream' = initialEventStream
                     /\ log' = log]_vars

C3_Witness ==
  /\ samplingEnabled = "false"
  /\ ~continuation
  /\ pending = <<>>
  /\ initialEventStream.items # <<>>
  /\ initialEventStream.items[1].repeatCount = 2
  /\ "number_emails" \in initialKPIs.keys

C6_PublishOnStart ==
  /\ [][FreshStart
          => /\ ~current'.defined
             /\ sent' = IF current.defined
                          THEN Append(sent, [id |-> currentId, logical |-> logical])
                          ELSE sent]_vars
  /\ [](\A i, j \in 1 .. Len(sent) : i # j => sent[i].id # sent[j].id)

C6_Witness ==
  /\ ~continuation
  /\ samplingEnabled = "false"
  /\ Len(pending) = 1
  /\ pending[1].phase = "upload"
  /\ \E i \in 1 .. Len(sent) : sent[i].logical = session - 1

\* C7: a continuation that finds a record resumes it: samplingEnabled and
\* samplesBeingStored are true, startTime is the record's local_timestamp,
\* nothing is published or decided, the record is unchanged; a tuple appended
\* later on that page is appended to that record.
C7_Resume ==
  /\ [][ContinuationStart /\ current.defined
          => /\ samplingEnabled' = "true"
             /\ samplesBeingStored'
             /\ startTime' = current.local_timestamp
             /\ pending' = <<>>
             /\ sent' = sent
             /\ current' = current
             /\ currentId' = currentId]_vars
  /\ [][SamePage /\ continuation /\ samplingEnabled = "true"
          => /\ currentId' = currentId
             /\ samplingEnabled' = "true"
             /\ Len(log') > Len(log)
                  => /\ Len(current'.event_stream) = Len(current.event_stream) + 1
                     /\ SubSeq(current'.event_stream, 1, Len(current.event_stream))
                          = current.event_stream
                     /\ current'.event_stream[Len(current'.event_stream)].name
                          = log'[Len(log')].name]_vars

C7_Witness ==
  /\ continuation
  /\ samplingEnabled = "true"
  /\ \E i, j \in 1 .. Len(log) : log[i].page < log[j].page /\ log[j].page = session
  /\ Names(current.event_stream) = Names(log)

\* C8: a continuation that finds no record is disabled, unsubscribed, and
\* has no call in flight; for the rest of the page samplingEnabled stays
\* false and no step changes a buffer, the slot or the log.
C8_NoResume ==
  /\ [][ContinuationStart /\ ~current.defined
          => /\ samplingEnabled' = "false"
             /\ pending' = <<>>
             /\ ~subscribed'
             /\ ~current'.defined]_vars
  /\ [][SamePage /\ continuation /\ samplingEnabled = "false"
          => /\ samplingEnabled' = "false"
             /\ ~current'.defined
             /\ nextId' = nextId
             /\ initialKPIs' = initialKPIs
             /\ initialEventStream' = initialEventStream
             /\ log' = log]_vars

C8_Witness ==
  /\ continuation
  /\ samplingEnabled = "false"
  /\ calls = 1
  /\ doneCalls = 1
  /\ pending = <<>>
  /\ startTime = 600

\* C9: the record in the slot holds, in order, the tuples appended in all
\* pages of its logical session; records are handed to the network only by
\* the next page load that is no continuation, and no two hand-offs are of
\* the same logical session.
C9_OneRecordPerSession ==
  /\ [](current.defined => Names(current.event_stream) = Names(log))
  /\ [][sent' # sent
          => /\ FreshStart
             /\ current.defined
             /\ sent' = Append(sent, [id |-> currentId, logical |-> logical])]_vars
  /\ [][FreshStart /\ current.defined => sent' # sent]_vars
  /\ [](\A i, j \in 1 .. Len(sent) : i # j => sent[i].logical # sent[j].logical)

C9_Witness ==
  /\ continuation
  /\ current.defined
  /\ sent # <<>>
  /\ Len(log) = 2
  /\ log[1].page = logical
  /\ log[2].page = session
  /\ session > logical

\* C10: with rate 0 (or no rate) the decision is 'disabled', with rate 1 it
\* is 'enabled', and in general it is 'enabled' iff draw <= rate.
C10_Decision ==
  decision.made
    => LET rate == IF decision.rate = NoRate THEN 0 ELSE decision.rate IN
       /\ rate = 0 => samplingEnabled = "false"
       /\ rate = RateDen => samplingEnabled = "true"
       /\ samplingEnabled = "true" <=> decision.draw <= rate

\* the tuples of the active stream: the buffer or the durable record
ActiveStream == getCurrentEventStream(Self).items

\* a stream with d added to every offset, and nothing else changed
Shift(stream, d) ==
  [i \in 1 .. Len(stream) |-> [stream[i] EXCEPT !.offset = @ + d]]

\* the start times a start_time message can carry
StartTimes == {600, 1200}

\* C11: while sampling is not disabled, a start_time message with start time
\* n, received when the start time is s, adds s - n to the offset of every
\* tuple of the active stream, changes nothing else of the tuples, keeps
\* their order, and sets startTime to n.
C11_StartTimeShift ==
  /\ [](session > 0 /\ samplingEnabled # "false"
          => \A n \in StartTimes :
               LET r == addEvent(Self, "start_time", [NoData EXCEPT !.time = n],
                                 now).m
               IN  /\ getCurrentEventStream(r).items
                        = Shift(ActiveStream, startTime - n)
                   /\ r.startTime = n)
  /\ [][SamePage /\ startTime' # startTime /\ samplingEnabled # "false"
          => /\ ActiveStream' = Shift(ActiveStream, startTime - startTime')
             /\ startTime' \in StartTimes]_vars

C11_Witness ==
  /\ startTime = 600
  /\ samplesBeingStored
  /\ Len(ActiveStream) = 2
  /\ ActiveStream[1].offset = 0 - 600
  /\ ActiveStream[2].offset = 0

\* the network-completion messages
XhrMessages == {e \in RecorderMessages : e.msg = "xhr_complete"}

\* C12: while sampling is not disabled, a network-completion event whose
\* reporting name is that of the last tuple of the active stream appends no
\* tuple and sets that tuple's repeatCount to 2, or to one more than it was;
\* otherwise it appends a fresh tuple without repeatCount.
C12_Dedup ==
  session > 0 /\ samplingEnabled # "false"
    => \A e \in XhrMessages :
         LET name == getKPIName(e.msg, e.data)
             s == ActiveStream
             n == Len(s)
             t == getCurrentEventStream(addEvent(Self, e.msg, e.data, now).m).items
         IN  IF n > 0 /\ s[n].name = name
               THEN t = [s EXCEPT ![n].repeatCount = IF @ = 0 THEN 2 ELSE @ + 1]
               ELSE /\ Len(t) = n + 1
                    /\ SubSeq(t, 1, n) = s
                    /\ t[n + 1].name = name
                    /\ t[n + 1].repeatCount = 0

\* C13: when sampling is enabled with server time T, the timestamp of the
\* durable record is T floored to ten minutes: a multiple of 600000, at most
\* T and less than 600000 below T.
C13_TimestampFloored ==
  decision.ran /\ samplingEnabled = "true"
    => /\ current.defined
       /\ "timestamp" \in current.keys
       /\ current.timestamp % 600000 = 0
       /\ current.timestamp <= decision.time
       /\ decision.time - current.timestamp < 600000

C13_Witness ==
  /\ decision.made
  /\ samplingEnabled = "true"
  /\ decision.time = 1000003
  /\ current.timestamp = 600000

\* the rate of a context, 0 when it has none
RateOf(context) ==
  IF context.data_sample_rate = NoRate THEN 0 ELSE context.data_sample_rate

\* C14: when the engine runs on a page that has its buffers and the decision
\* is 'enabled', the record pushed has the buffered tuples as event_stream,
\* the context's rate as sample_rate and new_account = false, the buffers are
\* discarded and samplesBeingStored is true; afterwards every tuple appended
\* goes to the end of the durable record, after the buffered ones.
C14_Promotion ==
  /\ [](session > 0 /\ ~samplesBeingStored /\ initialKPIs.defined
          => \A context \in Contexts, draw \in Draws :
               LET m1 == beginSampling(Self, context, draw) IN
               m1.samplingEnabled = "true"
                 => /\ ~m1.raised
                    /\ m1.current.defined
                    /\ {"event_stream", "sample_rate", "new_account"}
                         \subseteq m1.current.keys
                    /\ m1.current.event_stream = initialEventStream.items
                    /\ m1.current.sample_rate = RateOf(context)
                    /\ m1.current.new_account = FALSE
                    /\ m1.initialEventStream = NullStream
                    /\ m1.initialKPIs = Undefined
                    /\ m1.samplesBeingStored)
  /\ [][SamePage /\ ~samplesBeingStored /\ samplesBeingStored'
          => /\ current'.defined
             /\ current'.event_stream = initialEventStream.items
             /\ current'.new_account = FALSE
             /\ initialEventStream' = NullStream
             /\ initialKPIs' = Undefined]_vars
  /\ [][SamePage /\ samplesBeingStored
          => /\ samplesBeingStored'
             /\ initialEventStream' = NullStream
             /\ initialKPIs' = Undefined
             /\ Len(log') > Len(log)
                  => /\ Len(current'.event_stream) = Len(current.event_stream) + 1
                     /\ SubSeq(current'.event_stream, 1, Len(current.event_stream))
                          = current.event_stream
                     /\ current'.event_stream[Len(current'.event_stream)].name
                          = log'[Len(log')].name]_vars
  /\ [](samplesBeingStored => Names(current.event_stream) = Names(log))

C14_Witness ==
  /\ samplesBeingStored
  /\ ~continuation
  /\ Len(current.event_stream) = 3
  /\ current.event_stream[1].name = "screen.cancel"
  /\ current.event_stream[1].offset = 0 - 600
  /\ current.event_stream[3].offset = 0
  /\ current.sample_rate = RateDen \div 2
  /\ ~current.new_account

\* the keys of MediatorToKPINameTable
TableNames ==
  DOMAIN StringEntries \cup NullEntries \cup {"service", "xhr_complete", "error_screen"}

\* the tuples of the active stream after addEvent of message e
StreamAfter(e) ==
  getCurrentEventStream(addEvent(Self, e.msg, e.data, now).m).items

\* C15, as stated: while sampling is not disabled, an event whose name has
\* no entry in the table is recorded under its raw name.
C15_PassThrough ==
  session > 0 /\ samplingEnabled # "false"
    => \A e \in RecorderMessages :
         e.msg \notin TableNames
           => /\ Len(StreamAfter(e)) = Len(ActiveStream) + 1
              /\ StreamAfter(e)[Len(ActiveStream) + 1].name = e.msg

\* C15, amended: while sampling is not disabled, an event whose table entry
\* is null is recorded under its raw name; an event whose name has no entry
\* is dropped: no tuple is appended and addEvent returns undefined.
C15_NullEntryPassThrough ==
  session > 0 /\ samplingEnabled # "false"
    => \A e \in RecorderMessages :
         /\ e.msg \in NullEntries
              => /\ Len(StreamAfter(e)) = Len(ActiveStream) + 1
                 /\ SubSeq(StreamAfter(e), 1, Len(ActiveStream)) = ActiveStream
                 /\ StreamAfter(e)[Len(ActiveStream) + 1].name = e.msg
         /\ e.msg \notin TableNames
              => /\ Names(StreamAfter(e)) = Names(ActiveStream)
                 /\ addEvent(Self, e.msg, e.data, now).ret = NoTuple
                 /\ e.msg # "start_time"
                      => addEvent(Self, e.msg, e.data, now).m = Self

C15_Witness ==
  /\ samplingEnabled = "undefined"
  /\ Len(ActiveStream) = 2
  /\ ActiveStream[1].name = "screen.cancel"
  /\ ActiveStream[2].name = "generate_assertion"

\* C16: no operation of the recorder raises an exception: no start, addEvent,
\* addKPIData, context delivery or publishCurrent call, in any order, ends
\* in one.
C16_NoException == ~raised

\* the publishCurrent calls of the live page that were given a done callback:
\* all but the call start makes itself
DoneRequested ==
  IF session = 0 THEN 0 ELSE calls - (IF continuation THEN 0 ELSE 1)

\* C17: done is invoked at most once per publishCurrent(done) call, and every
\* such call is followed by the invocation of its done.
C17_DoneOnce ==
  /\ [](doneCalls <= DoneRequested)
  /\ \A k \in 1 .. MaxPublish : (DoneRequested >= k) ~> (doneCalls >= k)

\* the decision has been taken and has had its effect: sampling is disabled,
\* or enabled with the session in the durable store
Settled ==
  \/ samplingEnabled = "false"
  \/ samplingEnabled = "true" /\ samplesBeingStored

\* C18: once the decision has been taken and has had its effect, a further
\* run of the decision engine changes neither samplingEnabled, nor
\* samplesBeingStored, nor the buffers, nor the durable record, and writes
\* nothing to the store.
C18_FurtherRunNoOp ==
  /\ [](session > 0 /\ Settled
          => \A context \in Contexts, draw \in Draws :
               LET m1 == beginSampling(Self, context, draw) IN
               /\ m1.samplingEnabled = samplingEnabled
               /\ m1.samplesBeingStored = samplesBeingStored
               /\ m1.initialEventStream = initialEventStream
               /\ m1.initialKPIs = initialKPIs
               /\ m1.current = current
               /\ m1.nextId = nextId)
  /\ [][SamePage /\ CallbackRuns /\ Settled
          => UNCHANGED <<samplingEnabled, samplesBeingStored, initialEventStream,
                         initialKPIs, current, currentId, nextId>>]_vars

C18_Witness ==
  /\ samplingEnabled = "true"
  /\ samplesBeingStored
  /\ ~continuation
  /\ calls = 2
  /\ doneCalls = 0
  /\ pending = <<>>
  /\ raised
  /\ sent = <<[id |-> 1, logical |-> 1]>>

\* C19: samplesBeingStored selects the one active medium.  While it is false
\* the getters read the buffers, the setters write the buffers, and no step
\* of the page writes the slot, which is empty; while it is true the getters
\* read the slot, the setters write the slot, and the buffers are null and
\* stay null.
C19_OneMedium ==
  /\ [](session > 0 /\ ~samplesBeingStored
          => /\ ~current.defined
             /\ samplingEnabled # "false"
                  => /\ getCurrentKPIs(Self) = initialKPIs
                     /\ getCurrentEventStream(Self) = initialEventStream
             /\ \A k \in KPIPayloads :
                  /\ setCurrentKPIs(Self, k).current = current
                  /\ setCurrentKPIs(Self, k).initialKPIs = k
                  /\ setCurrentEventStream(Self, k.event_stream).current = current
                  /\ setCurrentEventStream(Self, k.event_stream).initialEventStream
                       = Stream(k.event_stream))
  /\ [](samplesBeingStored
          => /\ samplingEnabled = "true"
             /\ initialEventStream = NullStream
             /\ initialKPIs = Undefined
             /\ getCurrentKPIs(Self) = current
             /\ getCurrentEventStream(Self) = Stream(current.event_stream)
             /\ \A k \in KPIPayloads :
                  /\ setCurrentKPIs(Self, k).current = k
                  /\ setCurrentKPIs(Self, k).initialKPIs = Undefined
                  /\ setCurrentEventStream(Self, k.event_stream).current.event_stream
                       = k.event_stream
                  /\ setCurrentEventStream(Self, k.event_stream).initialEventStream
                       = NullStream)
  /\ [][SamePage /\ ~samplesBeingStored'
          => current' = current /\ nextId' = nextId]_vars
  /\ [][SamePage /\ samplesBeingStored
          => /\ samplesBeingStored'
             /\ initialEventStream' = NullStream
             /\ initialKPIs' = Undefined]_vars

C19_Witness ==
  /\ samplesBeingStored
  /\ ~continuation
  /\ "number_emails" \in current.keys
  /\ current.new_account
  /\ Len(current.event_stream) = 1
  /\ current.event_stream[1].repeatCount = 2

\* C20: while sampling is not disabled, every offset of the active stream is
\* the local instant of its event minus the current startTime, on pages that
\* are continuations too.
C20_SingleStartTime ==
  session > 0 /\ samplingEnabled # "false"
    => /\ Len(ActiveStream) = Len(log)
       /\ \A i \in 1 .. Len(log) :
            ActiveStream[i].offset = log[i].time - startTime

\* C21: while sampling is not disabled, the offsets of the tuples of the
\* active stream are non-decreasing along the stream.
C21_Chronological ==
  session > 0 /\ samplingEnabled # "false"
    => \A i, j \in 1 .. Len(ActiveStream) :
         i < j => ActiveStream[i].offset <= ActiveStream[j].offset

\* the reporting names that network-completion events produce
XhrNames == {getKPIName(e.msg, e.data) : e \in XhrMessages}

\* C22: while sampling is not disabled, no two adjacent tuples of the active
\* stream carry the same reporting name when that name is one produced by a
\* network-completion event, the malformed-report name included.
C22_NoAdjacentDuplicates ==
  session > 0 /\ samplingEnabled # "false"
    => \A i \in 1 .. Len(ActiveStream) - 1 :
         ActiveStream[i].name \in XhrNames
           => ActiveStream[i + 1].name # ActiveStream[i].name

\* everything of the module instance and the store but startTime
Frame(m) == [m EXCEPT !.startTime = 0]

\* C23: addEvent('start_time', n) appends no tuple and returns undefined:
\* the active stream keeps its length, its names, durations and repeatCounts,
\* only the offsets are shifted; while sampling is disabled it changes
\* startTime and nothing else.
C23_StartTimeNoTuple ==
  /\ [](session > 0
          => \A n \in StartTimes :
               LET r == addEvent(Self, "start_time", [NoData EXCEPT !.time = n], now)
               IN  /\ r.ret = NoTuple
                   /\ r.m.startTime = n
                   /\ r.m.log = log
                   /\ samplingEnabled # "false"
                        => getCurrentEventStream(r.m).items
                             = Shift(ActiveStream, startTime - n)
                   /\ samplingEnabled = "false" => Frame(r.m) = Frame(Self))
  /\ [][SamePage /\ startTime' # startTime
          => /\ log' = log
             /\ Names(ActiveStream') = Names(ActiveStream)
             /\ samplingEnabled = "false"
                  => UNCHANGED <<samplingEnabled, samplesBeingStored,
                                 initialEventStream, initialKPIs, current,
                                 currentId, nextId, sent>>]_vars

C23_Witness ==
  /\ samplingEnabled = "false"
  /\ ~continuation
  /\ startTime = 600
  /\ now = 0
  /\ pending = <<>>
  /\ Len(initialEventStream.items) = 3
  /\ initialEventStream.items[3].offset = 0

\* the entries of the table that are functions, and what each returns
FunctionEntries == {"service", "xhr_complete", "error_screen"}

FunctionResult(e) ==
  IF e.msg = "service" THEN "screen." \o e.data.name
  ELSE IF e.msg = "xhr_complete" THEN removeGetData(e.msg, e.data)
  ELSE parseErrorScreen(e.msg, e.data)

\* the event of message e is recorded under name: after addEvent the last
\* tuple of the active stream has that name, and it is a new tuple or the
\* last tuple counted once more
RecordedAs(e, name) ==
  LET s == ActiveStream
      t == StreamAfter(e)
  IN  /\ Len(t) > 0
      /\ t[Len(t)].name = name
      /\ \/ Len(t) = Len(s) + 1 /\ SubSeq(t, 1, Len(s)) = s
         \/ /\ Len(t) = Len(s)
            /\ t[Len(t)].repeatCount > s[Len(s)].repeatCount

\* the translator yields undefined for the message
Untranslated(e) ==
  e.msg \notin DOMAIN StringEntries \cup NullEntries \cup FunctionEntries

\* C24, as stated: while sampling is not disabled, an event whose table entry
\* is a string is recorded under that string, one whose entry is a function
\* under the function's result, and one for which the translator yields
\* undefined leaves the active stream, the record and the store unchanged.
C24_TranslationDecides ==
  session > 0 /\ samplingEnabled # "false"
    => \A e \in RecorderMessages :
         /\ e.msg \in DOMAIN StringEntries => RecordedAs(e, StringEntries[e.msg])
         /\ e.msg \in FunctionEntries => RecordedAs(e, FunctionResult(e))
         /\ Untranslated(e)
              => /\ StreamAfter(e) = ActiveStream
                 /\ addEvent(Self, e.msg, e.data, now).m.current = current
                 /\ addEvent(Self, e.msg, e.data, now).m.initialKPIs = initialKPIs

\* C24, amended: the same, but a start_time message, for which the translator
\* yields undefined too, has the offsets of the active stream shifted before
\* it is dropped; every other such message leaves everything unchanged.
C24_TranslationDecidesButStartTime ==
  session > 0 /\ samplingEnabled # "false"
    => \A e \in RecorderMessages :
         /\ e.msg \in DOMAIN StringEntries => RecordedAs(e, StringEntries[e.msg])
         /\ e.msg \in FunctionEntries => RecordedAs(e, FunctionResult(e))
         /\ Untranslated(e)
              => /\ addEvent(Self, e.msg, e.data, now).ret = NoTuple
                 /\ e.msg # "start_time"
                      => addEvent(Self, e.msg, e.data, now).m = Self
                 /\ e.msg = "start_time"
                      => /\ StreamAfter(e) = Shift(ActiveStream, startTime - e.data.time)
                         /\ Frame(addEvent(Self, e.msg, e.data, now).m)
                              = Frame(setCurrentEventStream(Self, StreamAfter(e)))

C24_Witness ==
  /\ samplesBeingStored
  /\ Len(ActiveStream) = 3
  /\ ActiveStream[1].name = "screen.cancel"
  /\ ActiveStream[2].name = "screen.pick_email"
  /\ ActiveStream[2].duration = 50
  /\ ActiveStream[3].name = "xhr_complete.GET/wsapi/session_context"
  /\ ActiveStream[3].repeatCount = 2

\* the keys a record of the model can have a value for
Fields ==
  {"event_stream", "sample_rate", "timestamp", "local_timestamp",
   "new_account", "number_emails"}

\* obj shallow-merged into old gives new
Merged(old, obj, new) ==
  /\ new.defined
  /\ new.keys = old.keys \cup obj.keys
  /\ \A f \in Fields : new[f] = IF f \in obj.keys THEN obj[f] ELSE old[f]

\* the "kpi_data" messages
KPIMessages == {e \in RecorderMessages : e.msg = "kpi_data"}

\* C25: while sampling is not disabled, addKPIData(obj) shallow-merges obj
\* into the active record, in the buffer before the promotion and in the
\* durable record after it, and leaves the other medium alone; a "kpi_data"
\* message does the same and appends no tuple.
C25_KPIDataMerged ==
  session > 0 /\ samplingEnabled # "false"
    => /\ \A obj \in KPIPayloads :
            LET m1 == addKPIData(Self, obj) IN
            /\ Merged(getCurrentKPIs(Self), obj, getCurrentKPIs(m1))
            /\ IF samplesBeingStored
                 THEN /\ m1.current = getCurrentKPIs(m1)
                      /\ m1.initialKPIs = initialKPIs
                 ELSE /\ m1.initialKPIs = getCurrentKPIs(m1)
                      /\ m1.current = current
            /\ m1.initialEventStream = initialEventStream
            /\ m1.log = log
       /\ \A e \in KPIMessages :
            LET m1 == addEvent(Self, e.msg, e.data, now)
                m2 == onKPIData(m1.m, e.msg, e.data.kpis)
            IN  /\ m1.ret = NoTuple
                /\ m1.m = Self
                /\ m2 = addKPIData(Self, e.data.kpis)

C25_Witness ==
  /\ samplesBeingStored
  /\ current.new_account
  /\ current.sample_rate = RateDen
  /\ Len(current.event_stream) = 2

\* C26: on a stored session, when addEvent has returned from an event that
\* has a reporting name, the record in the slot has the event in its
\* event_stream: as a new last tuple, or in the last tuple counted once more;
\* the slot holds every tuple recorded in the logical session, and a page
\* load that is a continuation finds the record as the page before left it.
C26_PersistedOnReturn ==
  /\ [](samplesBeingStored
          => /\ Names(current.event_stream) = Names(log)
             /\ \A e \in Messages :
                  LET r == addEvent(Self, e.msg, e.data, now)
                      s == current.event_stream
                      t == r.m.current.event_stream
                  IN  getKPIName(e.msg, e.data) # NoName
                        => /\ r.m.current.defined
                           /\ Len(t) > 0
                           /\ t[Len(t)].name = getKPIName(e.msg, e.data)
                           /\ \/ Len(t) = Len(s) + 1 /\ SubSeq(t, 1, Len(s)) = s
                              \/ /\ Len(t) = Len(s)
                                 /\ t[Len(t)].repeatCount > s[Len(s)].repeatCount
                                 /\ SubSeq(t, 1, Len(s) - 1) = SubSeq(s, 1, Len(s) - 1))
  /\ [][ContinuationStart /\ current.defined
          => /\ current' = current
             /\ ActiveStream' = current.event_stream
             /\ log' = log]_vars

C26_Witness ==
  /\ continuation
  /\ samplesBeingStored
  /\ session = 3
  /\ logical = 1
  /\ Len(current.event_stream) = 2
  /\ current.event_stream[1].repeatCount = 2
  /\ log[2].page = 3

\* C27: addEvent returns the tuple it appended, or the last tuple, with its
\* new repeatCount, when the event was collapsed into it; it returns
\* undefined when the event is dropped and when sampling is disabled.
C27_ReturnValue ==
  session > 0
    => \A e \in RecorderMessages :
         LET r == addEvent(Self, e.msg, e.data, now)
             s == ActiveStream
             t == getCurrentEventStream(r.m).items
             n == Len(s)
         IN  IF samplingEnabled = "false" THEN r.ret = NoTuple
             ELSE IF Len(t) = n + 1
               THEN r.ret = t[n + 1] /\ r.ret.name = getKPIName(e.msg, e.data)
             ELSE IF n > 0 /\ t[n].repeatCount # s[n].repeatCount
               THEN /\ r.ret = t[n]
                    /\ r.ret.name = getKPIName(e.msg, e.data)
                    /\ r.ret.repeatCount >= 2
             ELSE r.ret = NoTuple /\ Untranslated(e)

PublishInFlight == session > 0 /\ ~continuation /\ pending # <<>>

\* C29: the record handed to upload when a session that is no continuation
\* starts is the record of the pages before it, with their tuples only, and
\* it is never in the slot again; until the publish has completed the session
\* is not storing, every addEvent and every addKPIData changes the buffers
\* only, and no step of the page changes the slot or what was handed over.
C29_HandedRecordUntouched ==
  /\ [][FreshStart /\ current.defined
         => /\ sent' = Append(sent, [id |-> currentId, logical |-> logical])
            /\ Names(current.event_stream) = Names(log)
            /\ \A i \in 1 .. Len(log) : log[i].page < session'
            /\ current'.defined = FALSE]_vars
  /\ [](\A i \in 1 .. Len(sent) : current.defined => sent[i].id # currentId)
  /\ [](PublishInFlight
          => /\ ~samplesBeingStored
             /\ \A e \in Messages :
                  LET r == addEvent(Self, e.msg, e.data, now).m
                  IN  /\ r.current = current
                      /\ r.currentId = currentId
                      /\ r.sent = sent
                      /\ ~r.samplesBeingStored
                      /\ (samplingEnabled # "false"
                            /\ getKPIName(e.msg, e.data) # NoName)
                           => /\ r.initialEventStream.defined
                              /\ Len(r.initialEventStream.items) > 0
                              /\ r.initialEventStream.items[
                                   Len(r.initialEventStream.items)].name
                                     = getKPIName(e.msg, e.data)
             /\ \A k \in KPIPayloads :
                  LET r == addKPIData(Self, k)
                  IN  /\ r.current = current
                      /\ r.currentId = currentId
                      /\ r.sent = sent
                      /\ samplingEnabled # "false"
                           => r.initialKPIs = Extend(initialKPIs, k))
  /\ [][SamePage /\ PublishInFlight /\ pending' # <<>>
         => current' = current /\ currentId' = currentId /\ sent' = sent]_vars

\* a session that handed over the record of the session before it has two
\* events and a KPI in its buffers while its publish is in flight
C29_Witness ==
  /\ PublishInFlight
  /\ Len(initialEventStream.items) = 2
  /\ "number_emails" \in initialKPIs.keys
  /\ Len(sent) = 1
  /\ sent[1].logical = session - 1
  /\ ~current.defined

\* the fields that beginSampling sets in the record it pushes
EngineFields ==
  {"event_stream", "sample_rate", "timestamp", "local_timestamp", "lang",
   "new_account", "screen_size"}

\* the KPIs of the buffer that are carried by the record
Carried(buffer, record) ==
  /\ buffer.keys \subseteq record.keys
  /\ "number_emails" \in buffer.keys
       => record.number_emails = buffer.number_emails

\* C30: when beginSampling promotes the buffers, every KPI merged into the
\* buffer that is none of the engine's fields is in the pushed record with
\* the value it had in the buffer, and the engine's fields have the engine's
\* values, new_account false also when true was merged before; so it is for
\* the buffer as it is and after one more payload is merged.
C30_BufferedKPIsCarried ==
  /\ [](session > 0 /\ ~samplesBeingStored /\ initialKPIs.defined
                    /\ samplingEnabled # "false"
          => \A k \in KPIPayloads \cup {EmptyObj}, context \in Contexts,
                draw \in Draws :
               LET m0 == addKPIData(Self, k)
                   m1 == beginSampling(m0, context, draw)
               IN  /\ m0.initialKPIs = Extend(initialKPIs, k)
                   /\ m1.samplingEnabled = "true"
                        => /\ m1.current.defined
                           /\ Carried(m0.initialKPIs, m1.current)
                           /\ EngineFields \subseteq m1.current.keys
                           /\ m1.current.event_stream = initialEventStream.items
                           /\ m1.current.sample_rate = RateOf(context)
                           /\ m1.current.timestamp
                                = (context.server_time \div TEN_MINS_IN_MS)
                                    * TEN_MINS_IN_MS
                           /\ m1.current.local_timestamp = DateToString(startTime)
                           /\ m1.current.new_account = FALSE)
  /\ [][SamePage /\ ~samplesBeingStored /\ samplesBeingStored'
          => /\ initialKPIs.defined
             /\ current'.defined
             /\ Carried(initialKPIs, current')
             /\ EngineFields \subseteq current'.keys
             /\ current'.new_account = FALSE
             /\ current'.local_timestamp = DateToString(startTime)]_vars

\* a record pushed from a buffer into which number_emails and new_account
\* had been merged
C30_Witness ==
  /\ samplesBeingStored
  /\ ~continuation
  /\ current.defined
  /\ current.keys = EngineFields \cup {"number_emails"}
  /\ current.number_emails = 2
  /\ ~current.new_account
  /\ Len(current.event_stream) = 1

====
